---- MODULE Spec2Model ----
(***************************************************************************)
(* Model of the Raycast ShareX extension.                                  *)
(*                                                                         *)
(* src/src/utils/windows-helpers.ts: the bulk runner                       *)
(* processItemsWithRecovery with showProcessingResults (alone, with        *)
(* killProcess as its processor, and as concurrent runs), the CSV parser   *)
(* parseWindowsCSV with getProcessList, the template parser               *)
(* parseCustomCommand with executeCustomCommand, and executeWindowsCommand *)
(* with killProcess and killProcessByName.                                 *)
(*                                                                         *)
(* src/src/capture-screen-region.tsx: the command that starts a region     *)
(* capture.  The view-recent-screenshots command: getScreenshots and       *)
(* deleteScreenshot.                                                       *)
(***************************************************************************)
EXTENDS Integers, Sequences, FiniteSets, TLC

VARIABLES
    items,          \* processItemsWithRecovery: the items argument
    processor,      \* what the processor does for the k-th item (settles ok, or throws a value)
    hasProgress,    \* whether the optional onProgress argument was supplied
    progressThrowAt,\* the call of onProgress that throws (0: onProgress never throws)
    pc,             \* position of the run: "loop", "await", "progress", "done", "rejected", "shown"
    i,              \* the loop variable of processItemsWithRecovery
    successful,     \* results.successful
    failed,         \* results.failed
    errors,         \* results.errors
    invoked,        \* log: the items the processor was invoked with, in call order
    progressCalls,  \* log: the <<completed, total>> argument pairs of the onProgress calls
    returned,       \* the value the run's promise resolved with (NoResult before)
    toasts,         \* log: the showToast calls of showProcessingResults
    killsPids,      \* whether the processor is (pid) => killProcess(pid)
    inFlight,       \* the processor calls of the run that were started and have not settled
    commands,       \* log: the command lines the processor calls handed to exec
    text,           \* the text handed to parseWindowsCSV / printed by the tasklist command
    rows,           \* the value parseWindowsCSV returned
    records,        \* the value getProcessList resolved with
    csvPc,          \* "start", "parsed" (parseWindowsCSV returned), "listed" (getProcessList resolved)
    template,       \* parseCustomCommand: the command argument
    replacements,   \* parseCustomCommand: the replacements argument, as its entries in Object.entries order
    tplPc,          \* "start", "returned" (parseCustomCommand returned), "threw"
    compiled,       \* the value parseCustomCommand returned, or the error it threw
    execCaller,     \* who called executeWindowsCommand: "direct", "killProcess", "killProcessByName"
    execTarget,     \* the pid or name given to killProcess / killProcessByName
    execCommand,    \* executeWindowsCommand: the command argument, as its fragments
    spawned,        \* log: the command lines handed to exec
    osResult,       \* how the child ended (NoResult while it has not)
    elapsed,        \* time the child has been running, in ticks
    execPc,         \* executeWindowsCommand: "start", "running", "resolved", "rejected"
    execValue,      \* the string executeWindowsCommand resolved with, or the error it threw
    callerPc,       \* killProcess / killProcessByName: "none", "awaiting", "resolved", "rejected"
    callerError,    \* the error killProcess / killProcessByName rejected with
    calls,          \* concurrent runs: per call of processItemsWithRecovery, its arguments and position
    customPc,       \* executeCustomCommand: "none", "running", "resolved", "rejected"
    fileCalls,      \* log: the execFile calls of executeCustomCommand
    customValue,    \* the string executeCustomCommand resolved with, or the error it rejected with
    sharexPath,     \* capture-screen-region: the sharexPath preference
    capturePc,      \* capture-screen-region Command: "start", "running", "done"
    captureCalls,   \* log: the command lines Command handed to exec
    captureResult,  \* how the launched child ended (NoResult while it has not)
    captureElapsed, \* time the launched child has been running, in ticks
    captureToasts,  \* log: the showToast calls of Command
    folder,         \* view-recent-screenshots: the monthly folder on disk
    screenshots,    \* the data of usePromise(getScreenshots, ...) (NoResult before the first load)
    isLoading,      \* whether a getScreenshots call started by usePromise is in flight
    loadCause,      \* what the last finished getScreenshots call met: "ok", "empty", or the error it caught
    loadToast,      \* the showToast call of the last finished getScreenshots call (NoResult: none)
    deletePc,       \* deleteScreenshot: "none", "running", "deleted", "failed"
    deleteTarget,   \* deleteScreenshot: the filePath argument
    deleteLog,      \* log: what the current deleteScreenshot call did (exec, revalidate, showToast)
    resultsOf       \* concurrent runs: the results objects created so far, by owner

bulkVars == <<items, processor, hasProgress, progressThrowAt, pc, i, successful,
              failed, errors, invoked, progressCalls, returned, toasts,
              killsPids, inFlight, commands>>

csvVars == <<text, rows, records, csvPc>>

tplVars == <<template, replacements, tplPc, compiled>>

execVars == <<execCaller, execTarget, execCommand, spawned, osResult, elapsed,
              execPc, execValue, callerPc, callerError>>

runVars == <<calls, resultsOf>>

customVars == <<customPc, fileCalls, customValue>>

captureVars == <<sharexPath, capturePc, captureCalls, captureResult, captureElapsed,
                 captureToasts>>

viewVars == <<folder, screenshots, isLoading, loadCause, loadToast, deletePc,
              deleteTarget, deleteLog>>

vars == <<bulkVars, csvVars, tplVars, execVars, runVars, customVars, captureVars, viewVars>>

\* what the steps of one function leave alone: the state of the others
notBulk ==
    <<csvVars, tplVars, execVars, runVars, customVars, captureVars, viewVars>>

notCsv ==
    <<bulkVars, tplVars, execVars, runVars, customVars, captureVars, viewVars>>

notTpl ==
    <<bulkVars, csvVars, execVars, runVars, captureVars, viewVars>>

notExec ==
    <<bulkVars, csvVars, tplVars, runVars, customVars, captureVars, viewVars>>

notCapture ==
    <<bulkVars, csvVars, tplVars, execVars, runVars, customVars, viewVars>>

notView ==
    <<bulkVars, csvVars, tplVars, execVars, runVars, customVars, captureVars>>

notRuns ==
    <<bulkVars, csvVars, tplVars, execVars, customVars, captureVars, viewVars>>

-----------------------------------------------------------------------------
(* Bounds *)

MaxItems == 3

\* longest generated text handed to parseWindowsCSV
MaxLen == 5

\* most pieces a generated command template is made of
MaxPieces == 3

\* longest time a child process is followed, in ticks
MaxTicks == 3

\* the timeout a caller would allow a command, in ticks
TimeoutTicks == 1

\* the latest birthtime or ctime of a file, in ticks
MaxTime == 3

-----------------------------------------------------------------------------
(* Values thrown by a processor.  A thrown value is either an instance of  *)
(* Error, whose message property is a string (the empty string for         *)
(* new Error()), or some other value, which may or may not carry a         *)
(* message (throw undefined; throw {message: "boom"}).                     *)

NoMessage == "<no message>"

ErrorMessages == {"", "boom", "denied"}

Thrown ==
    [kind : {"throw"}, isError : {TRUE}, message : ErrorMessages]
        \cup [kind : {"throw"}, isError : {FALSE}, message : {NoMessage, "boom"}]

Ok == [kind |-> "ok"]

Outcomes == {Ok} \cup Thrown

NoResult == [none |-> TRUE]

UnknownError == "Unknown error"

\* error instanceof Error ? error.message : "Unknown error"
ErrorText(thrown) ==
    IF thrown.isError THEN thrown.message ELSE UnknownError

-----------------------------------------------------------------------------
(* The command lines of executeWindowsCommand and its callers *)

\* variant: the command is handed to exec without the code page prefix
FullCommand_NoPrefix(command) == command

\* const fullCommand = `chcp 65001 > nul && ${command}`
FullCommand(command) == <<"chcp 65001 > nul && ">> \o command

\* `taskkill /F /PID ${pid}`
KillProcessCommand(pid) == <<"taskkill /F /PID ", pid>>

\* `taskkill /F /IM "${name}"`
KillProcessByNameCommand(name) == <<"taskkill /F /IM \"", name, "\"">>

\* How a child process ends, and what exec and execFile report of it

\* what a child prints
Stdouts == { <<>>, <<"o", "k">>, <<" ", "o", "k", "\r", "\n">> }

Stderrs == {"", "ERROR: The process could not be terminated."}

\* non-zero exit statuses
FailureCodes == {1, 128}

\* the codes of the errors exec reports when the child cannot be started
SpawnErrorCodes == {"ENOENT", "EACCES", "EPERM"}

CommandNotFoundMessage ==
    "Command not found. Please ensure the tool is installed and in PATH."

\* the code property of exec's error: a number (the exit status) or a string
\* (the system error code); a number never equals a string
ExitStatus(n) == [status |-> n]

SystemCode(c) == [system |-> c]

\* the error promisify(exec) rejects with: exec's error object, its code the
\* exit status or the system error code, with stdout and stderr attached
ExecError(code, out, err) ==
    [isError |-> TRUE, code |-> code, message |-> "Command failed",
     stdout |-> out, stderr |-> err]

\* new Error(message)
NewError(message) == [isError |-> TRUE, message |-> message]

-----------------------------------------------------------------------------
(* processItemsWithRecovery *)

\* no parser call is in progress
CsvIdle ==
    /\ text = <<>>
    /\ rows = <<>>
    /\ records = <<>>
    /\ csvPc = "idle"

\* the capture-screen-region command has not been invoked
CaptureIdle ==
    /\ sharexPath = ""
    /\ capturePc = "idle"
    /\ captureCalls = <<>>
    /\ captureResult = NoResult
    /\ captureElapsed = 0
    /\ captureToasts = <<>>

\* the view-recent-screenshots command has not been opened
ViewIdle ==
    /\ folder = NoResult
    /\ screenshots = NoResult
    /\ isLoading = FALSE
    /\ loadCause = NoResult
    /\ loadToast = NoResult
    /\ deletePc = "idle"
    /\ deleteTarget = <<>>
    /\ deleteLog = <<>>

\* no command of the extension is running
CommandsIdle == CaptureIdle /\ ViewIdle

\* executeCustomCommand has not been called
CustomIdle ==
    /\ customPc = "none"
    /\ fileCalls = <<>>
    /\ customValue = NoResult

\* no template is being parsed
TplIdle ==
    /\ template = <<>>
    /\ replacements = <<>>
    /\ tplPc = "idle"
    /\ compiled = NoResult
    /\ CustomIdle

\* executeWindowsCommand has not been called
ExecIdle ==
    /\ execCaller = "none"
    /\ execTarget = ""
    /\ execCommand = <<>>
    /\ spawned = <<>>
    /\ osResult = NoResult
    /\ elapsed = 0
    /\ execPc = "idle"
    /\ execValue = NoResult
    /\ callerPc = "none"
    /\ callerError = NoResult

\* processItemsWithRecovery has not been called concurrently
RunsIdle ==
    /\ calls = <<>>
    /\ resultsOf = <<>>

\* killProcess settles as executeWindowsCommand does: it fulfils, or rejects
\* with an instance of Error
KillProcessOutcome(outcome) ==
    IF outcome.kind = "ok" THEN TRUE ELSE outcome.isError

\* the pid of a selected process, as `${pid}` prints it
SelectedPid(item) == ToString(item)

\* what a processor call hands to exec: killProcess(pid) runs its taskkill
\* command through executeWindowsCommand
ProcessorCommands(item) ==
    IF killsPids
      THEN << FullCommand(KillProcessCommand(SelectedPid(item))) >>
      ELSE <<>>

\* const results = { successful: 0, failed: 0, errors: [] }; let i = 0
InitBulk ==
    /\ CommandsIdle
    /\ CsvIdle
    /\ TplIdle
    /\ ExecIdle
    /\ RunsIdle
    /\ \E n \in 0..MaxItems :
          /\ items = [k \in 1..n |-> k]
          /\ processor \in [1..n -> Outcomes]
          /\ hasProgress \in BOOLEAN
          /\ progressThrowAt \in 0..n
          /\ (~hasProgress => progressThrowAt = 0)
          /\ killsPids \in BOOLEAN
          /\ (killsPids => \A k \in 1..n : KillProcessOutcome(processor[k]))
    /\ pc = "loop"
    /\ i = 0
    /\ successful = 0
    /\ failed = 0
    /\ errors = <<>>
    /\ invoked = <<>>
    /\ progressCalls = <<>>
    /\ returned = NoResult
    /\ toasts = <<>>
    /\ inFlight = 0
    /\ commands = <<>>

\* variant: the loop also ends once an item has failed
LoopDone_AbortOnFailure(idx, its) == ~(idx < Len(its)) \/ failed > 0

\* the loop condition i < items.length is false
LoopDone(idx, its) == ~(idx < Len(its))

\* variant: processor(items[i]) is called and not awaited
AfterInvoke_NotAwaited == "progress"

\* await processor(items[i]): the run waits until the promise has settled
AfterInvoke == "await"

\* i < items.length: processor(items[i]) is called and awaited
Invoke ==
    /\ pc = "loop"
    /\ ~LoopDone(i, items)
    /\ invoked' = Append(invoked, items[i + 1])
    /\ inFlight' = inFlight + 1
    /\ commands' = commands \o ProcessorCommands(items[i + 1])
    /\ pc' = AfterInvoke
    /\ UNCHANGED <<items, processor, hasProgress, progressThrowAt, i, successful,
                   failed, errors, progressCalls, returned, toasts, killsPids>>
    /\ UNCHANGED notBulk

\* the awaited promise fulfils: results.successful++
SettleOk ==
    /\ pc = "await"
    /\ processor[i + 1].kind = "ok"
    /\ successful' = successful + 1
    /\ inFlight' = inFlight - 1
    /\ pc' = "progress"
    /\ UNCHANGED <<items, processor, hasProgress, progressThrowAt, i, failed,
                   errors, invoked, progressCalls, returned, toasts, killsPids,
                   commands>>
    /\ UNCHANGED notBulk

\* variant: the catch block counts the failure and records no message
PushError_Dropped(errs, thrown) == errs

\* variant: the message is put in front of the list
PushError_Front(errs, thrown) == <<ErrorText(thrown)>> \o errs

\* results.errors.push(...)
PushError(errs, thrown) == Append(errs, ErrorText(thrown))

\* the awaited promise rejects: the catch block
SettleThrow ==
    /\ pc = "await"
    /\ processor[i + 1].kind = "throw"
    /\ failed' = failed + 1
    /\ errors' = PushError(errors, processor[i + 1])
    /\ inFlight' = inFlight - 1
    /\ pc' = "progress"
    /\ UNCHANGED <<items, processor, hasProgress, progressThrowAt, i, successful,
                   invoked, progressCalls, returned, toasts, killsPids, commands>>
    /\ UNCHANGED notBulk

\* variant: onProgress(i, items.length)
ProgressArgs_ZeroBased(idx, its) == <<idx, Len(its)>>

\* the arguments of onProgress?.(i + 1, items.length)
ProgressArgs(idx, its) == <<idx + 1, Len(its)>>

\* variant: an exception of onProgress is swallowed
OnProgressThrows_Swallowed(idx) == FALSE

\* onProgress?.(i + 1, items.length) stands outside the try block: the call
\* made after item idx + 1 throws out of the loop when the callback throws
OnProgressThrows(idx) == hasProgress /\ progressThrowAt = idx + 1

\* onProgress?.(i + 1, items.length) returns (or is absent); i++
Progress ==
    /\ pc = "progress"
    /\ ~OnProgressThrows(i)
    /\ progressCalls' = IF hasProgress
                          THEN Append(progressCalls, ProgressArgs(i, items))
                          ELSE progressCalls
    /\ i' = i + 1
    /\ pc' = "loop"
    /\ UNCHANGED <<items, processor, hasProgress, progressThrowAt, successful,
                   failed, errors, invoked, returned, toasts>>
    /\ UNCHANGED <<killsPids, inFlight, commands>>
    /\ UNCHANGED notBulk

\* onProgress throws: nothing catches it, the run's promise rejects
ProgressThrows ==
    /\ pc = "progress"
    /\ OnProgressThrows(i)
    /\ progressCalls' = Append(progressCalls, ProgressArgs(i, items))
    /\ pc' = "rejected"
    /\ UNCHANGED <<items, processor, hasProgress, progressThrowAt, i, successful,
                   failed, errors, invoked, returned, toasts>>
    /\ UNCHANGED <<killsPids, inFlight, commands>>
    /\ UNCHANGED notBulk

\* i < items.length is false: return results
Return ==
    /\ pc = "loop"
    /\ LoopDone(i, items)
    /\ returned' = [successful |-> successful, failed |-> failed, errors |-> errors]
    /\ pc' = "done"
    /\ UNCHANGED <<items, processor, hasProgress, progressThrowAt, i, successful,
                   failed, errors, invoked, progressCalls, toasts>>
    /\ UNCHANGED <<killsPids, inFlight, commands>>
    /\ UNCHANGED notBulk

-----------------------------------------------------------------------------
(* showProcessingResults *)

\* Take(s, n): s.slice(0, n)
Take(s, n) == SubSeq(s, 1, IF Len(s) < n THEN Len(s) ELSE n)

\* variant: no third branch, every outcome with a failure is a total failure
ResultToast_NoPartial(results, operation) ==
    IF results.failed = 0
      THEN [style |-> "Success", title |-> <<operation, " completed">>,
            message |-> <<"Successfully processed", results.successful>>]
      ELSE [style |-> "Failure", title |-> <<operation, " failed">>,
            message |-> <<"errors", Take(results.errors, 3)>>]

\* variant: an outcome without a success is a total failure, whatever failed
ResultToast_NoSuccessFails(results, operation) ==
    IF results.successful = 0
      THEN [style |-> "Failure", title |-> <<operation, " failed">>,
            message |-> <<"errors", Take(results.errors, 3)>>]
    ELSE IF results.failed = 0
      THEN [style |-> "Success", title |-> <<operation, " completed">>,
            message |-> <<"Successfully processed", results.successful>>]
    ELSE [style |-> "Failure", title |-> <<operation, " partially completed">>,
          message |-> <<"counts", results.successful, results.failed>>]

\* the showToast call chosen by the if / else if / else
ResultToast(results, operation) ==
    IF results.failed = 0
      THEN [style |-> "Success", title |-> <<operation, " completed">>,
            message |-> <<"Successfully processed", results.successful>>]
    ELSE IF results.successful = 0
      THEN [style |-> "Failure", title |-> <<operation, " failed">>,
            message |-> <<"errors", Take(results.errors, 3)>>]
    ELSE [style |-> "Failure", title |-> <<operation, " partially completed">>,
          message |-> <<"counts", results.successful, results.failed>>]

\* the operation names callers pass
Operations == {"Kill", "Delete"}

\* the caller passes the returned outcome to showProcessingResults
ShowProcessingResults ==
    /\ pc = "done"
    /\ \E operation \in Operations :
          toasts' = Append(toasts, ResultToast(returned, operation))
    /\ pc' = "shown"
    /\ UNCHANGED <<items, processor, hasProgress, progressThrowAt, i, successful,
                   failed, errors, invoked, progressCalls, returned>>
    /\ UNCHANGED <<killsPids, inFlight, commands>>
    /\ UNCHANGED notBulk

NextBulk ==
    \/ Invoke
    \/ SettleOk
    \/ SettleThrow
    \/ Progress
    \/ ProgressThrows
    \/ Return
    \/ ShowProcessingResults

SpecBulk == InitBulk /\ [][NextBulk]_vars


-----------------------------------------------------------------------------
(* Strings are sequences of one-character strings. *)

Chars == {"a", "b", ",", "\"", " ", "\n", "\r"}

\* the characters String.prototype.trim removes
IsSpace(c) == c \in {" ", "\t", "\n", "\r"}

RECURSIVE TrimStart(_)
TrimStart(s) ==
    IF s # <<>> /\ IsSpace(Head(s)) THEN TrimStart(Tail(s)) ELSE s

RECURSIVE TrimEnd(_)
TrimEnd(s) ==
    IF s # <<>> /\ IsSpace(s[Len(s)]) THEN TrimEnd(SubSeq(s, 1, Len(s) - 1)) ELSE s

\* s.trim()
Trim(s) == TrimEnd(TrimStart(s))

\* the index of the first c in s (0 when there is none)
IndexOf(s, c) ==
    IF \E k \in 1..Len(s) : s[k] = c
      THEN CHOOSE k \in 1..Len(s) : s[k] = c /\ \A j \in 1..(k - 1) : s[j] # c
      ELSE 0

\* variant: s.split("\n")
RECURSIVE SplitLines_LfOnly(_)
SplitLines_LfOnly(s) ==
    LET k == IndexOf(s, "\n")
    IN  IF k = 0 THEN <<s>>
        ELSE <<SubSeq(s, 1, k - 1)>> \o SplitLines_LfOnly(SubSeq(s, k + 1, Len(s)))

\* s.split(/\r?\n/): the leftmost match ends at the first "\n" and takes the
\* "\r" right before it, if any
RECURSIVE SplitLines(_)
SplitLines(s) ==
    LET k == IndexOf(s, "\n")
    IN  IF k = 0 THEN <<s>>
        ELSE LET lineEnd == IF k > 1 /\ s[k - 1] = "\r" THEN k - 2 ELSE k - 1
             IN  <<SubSeq(s, 1, lineEnd)>> \o SplitLines(SubSeq(s, k + 1, Len(s)))

\* line.replace(/"/g, "")
RemoveQuotes(s) == SelectSeq(s, LAMBDA c : c # "\"")

\* s.split(",")
RECURSIVE SplitComma(_)
SplitComma(s) ==
    LET k == IndexOf(s, ",")
    IN  IF k = 0 THEN <<s>>
        ELSE <<SubSeq(s, 1, k - 1)>> \o SplitComma(SubSeq(s, k + 1, Len(s)))

\* variant: a comma between double quotes does not end the field
RECURSIVE SplitOutsideQuotes(_, _, _)
SplitOutsideQuotes(s, cur, inQuote) ==
    IF s = <<>> THEN <<cur>>
    ELSE IF Head(s) = "\"" THEN SplitOutsideQuotes(Tail(s), cur, ~inQuote)
    ELSE IF Head(s) = "," /\ ~inQuote
      THEN <<cur>> \o SplitOutsideQuotes(Tail(s), <<>>, FALSE)
    ELSE SplitOutsideQuotes(Tail(s), Append(cur, Head(s)), inQuote)

LineFields_QuoteAware(line) == SplitOutsideQuotes(line, <<>>, FALSE)

\* line => line.replace(/"/g, "").split(",")
LineFields(line) == SplitComma(RemoveQuotes(line))

\* variant: no row is filtered out
KeepRow_All(parts) == TRUE

\* parts => parts.length > 0 && parts[0]
KeepRow(parts) == Len(parts) > 0 /\ parts[1] # <<>>

\* the lines parseWindowsCSV works on
CsvLines(csvOutput) == SplitLines(Trim(csvOutput))

\* parseWindowsCSV
ParseWindowsCSV(csvOutput) ==
    LET lines == CsvLines(csvOutput)
        mapped == [k \in 1..Len(lines) |-> LineFields(lines[k])]
    IN  SelectSeq(mapped, KeepRow)

\* variant: the fields are read one position too far
FieldOr_OffByOne(parts, k) == IF k + 2 <= Len(parts) THEN parts[k + 2] ELSE <<>>

\* parts[k] || ""  (k counted from 0 as in the code)
FieldOr(parts, k) == IF k + 1 <= Len(parts) THEN parts[k + 1] ELSE <<>>

\* the record getProcessList builds from one row
ProcessRecord(parts) ==
    [name          |-> FieldOr(parts, 0),
     pid           |-> FieldOr(parts, 1),
     sessionName   |-> FieldOr(parts, 2),
     sessionNumber |-> FieldOr(parts, 3),
     memoryUsage   |-> FieldOr(parts, 4)]

\* executeWindowsCommand, the command having exited normally: stdout.trim()
CommandOutput(stdout) == Trim(stdout)

\* getProcessList, the tasklist command having printed stdout
ProcessListOf(stdout) ==
    LET parsed == ParseWindowsCSV(CommandOutput(stdout))
    IN  [k \in 1..Len(parsed) |-> ProcessRecord(parsed[k])]

\* "svc","Display Name, Extended",RUNNING
SvcLine ==
    <<"\"", "s", "v", "c", "\"", ",", "\"", "D", "i", "s", "p", "l", "a", "y", " ",
    "N", "a", "m", "e", ",", " ", "E", "x", "t", "e", "n", "d", "e", "d", "\"", ",",
    "R", "U", "N", "N", "I", "N", "G">>

\* "notepad.exe","1234","Console","1","15,000 K"
TasklistLine ==
    <<"\"", "n", "o", "t", "e", "p", "a", "d", ".", "e", "x", "e", "\"", ",", "\"",
    "1", "2", "3", "4", "\"", ",", "\"", "C", "o", "n", "s", "o", "l", "e", "\"", ",",
    "\"", "1", "\"", ",", "\"", "1", "5", ",", "0", "0", "0", " ", "K", "\"">>

\* three lines, the second one a single space
BlankMiddleText == <<"a", "\n", " ", "\n", "b">>

\* four lines: the first begins with a space and a comma, the third is empty
LeadingSpaceText == <<" ", ",", "a", "\n", "b", ",", "a", "\n", "\n", "a">>

\* two lines with CRLF line ends, the first with a quoted comma
CrLfText ==
    <<"\"", "a", ",", "b", "\"", ",", "a", "\r", "\n", "b", ",", "\"", "\"", "\r", "\n">>

RECURSIVE SeqsUpTo(_)
SeqsUpTo(n) ==
    IF n = 0 THEN {<<>>}
    ELSE LET shorter == SeqsUpTo(n - 1)
         IN  shorter \cup {Append(s, c) : s \in {t \in shorter : Len(t) = n - 1}, c \in Chars}

\* the texts the parser is run on
CsvInputs == SeqsUpTo(MaxLen) \cup {SvcLine, TasklistLine, BlankMiddleText, LeadingSpaceText, CrLfText}

\* no bulk run is in progress
BulkIdle ==
    /\ items = <<>>
    /\ processor = <<>>
    /\ hasProgress = FALSE
    /\ progressThrowAt = 0
    /\ pc = "idle"
    /\ i = 0
    /\ successful = 0
    /\ failed = 0
    /\ errors = <<>>
    /\ invoked = <<>>
    /\ progressCalls = <<>>
    /\ returned = NoResult
    /\ toasts = <<>>
    /\ killsPids = FALSE
    /\ inFlight = 0
    /\ commands = <<>>

InitCsv ==
    /\ CommandsIdle
    /\ BulkIdle
    /\ RunsIdle
    /\ TplIdle
    /\ ExecIdle
    /\ text \in CsvInputs
    /\ rows = <<>>
    /\ records = <<>>
    /\ csvPc = "start"

\* a call parseWindowsCSV(text) returns
ParseCsv ==
    /\ csvPc = "start"
    /\ rows' = ParseWindowsCSV(text)
    /\ csvPc' = "parsed"
    /\ UNCHANGED <<text, records>>
    /\ UNCHANGED notCsv

\* a call getProcessList() resolves, the tasklist command having printed text
GetProcessList ==
    /\ csvPc = "start"
    /\ records' = ProcessListOf(text)
    /\ csvPc' = "listed"
    /\ UNCHANGED <<text, rows>>
    /\ UNCHANGED notCsv

NextCsv ==
    \/ ParseCsv
    \/ GetProcessList

SpecCsv == InitCsv /\ [][NextCsv]_vars

-----------------------------------------------------------------------------
(* parseCustomCommand *)

\* the index of the first double quote of s after position p (0 when there is none)
NextQuote(s, p) ==
    IF \E q \in (p + 1)..Len(s) : s[q] = "\""
      THEN CHOOSE q \in (p + 1)..Len(s) :
              s[q] = "\"" /\ \A j \in (p + 1)..(q - 1) : s[j] # "\""
      ELSE 0

\* the last index of the run of c that starts at position p
RECURSIVE RunEnd(_, _, _)
RunEnd(s, p, c) ==
    IF p + 1 <= Len(s) /\ s[p + 1] = c THEN RunEnd(s, p + 1, c) ELSE p

\* command.match(/"[^"]+"|\\S+/g) from position p on: a quoted span with at
\* least one character inside, or a backslash followed by one or more S
RECURSIVE MatchFrom(_, _)
MatchFrom(s, p) ==
    IF p > Len(s) THEN <<>>
    ELSE IF s[p] = "\"" /\ NextQuote(s, p) >= p + 2
      THEN <<SubSeq(s, p, NextQuote(s, p))>> \o MatchFrom(s, NextQuote(s, p) + 1)
    ELSE IF s[p] = "\\" /\ p + 1 <= Len(s) /\ s[p + 1] = "S"
      THEN <<SubSeq(s, p, RunEnd(s, p + 1, "S"))>> \o MatchFrom(s, RunEnd(s, p + 1, "S") + 1)
    ELSE MatchFrom(s, p + 1)

\* command.match(...) || []
CommandParts(command) == MatchFrom(command, 1)

\* the positions at which pat occurs in s
Occurrences(s, pat) ==
    {k \in 1..(Len(s) - Len(pat) + 1) : SubSeq(s, k, k + Len(pat) - 1) = pat}

\* the smallest element of a non-empty set of numbers
Least(S) == CHOOSE k \in S : \A m \in S : k <= m

\* s.replace(pat, val) with a string pattern: the first occurrence only
\* (val holds no "$", which replace would interpret)
ReplaceFirst(s, pat, val) ==
    IF Occurrences(s, pat) = {} THEN s
    ELSE LET k == Least(Occurrences(s, pat))
         IN  SubSeq(s, 1, k - 1) \o val \o SubSeq(s, k + Len(pat), Len(s))

\* Object.entries(replacements).forEach(([placeholder, value]) => ...)
RECURSIVE ApplyReplacements(_, _)
ApplyReplacements(arg, entries) ==
    IF entries = <<>> THEN arg
    ELSE ApplyReplacements(ReplaceFirst(arg, Head(entries)[1], Head(entries)[2]),
                           Tail(entries))

\* variant: the placeholders are replaced in the executable too
Executable_Substituted(parts, entries) ==
    ApplyReplacements(RemoveQuotes(parts[1]), entries)

\* const executable = commandParts[0].replace(/"/g, "")
Executable(parts, entries) == RemoveQuotes(parts[1])

\* commandParts.slice(1).map(arg => ...)
Arguments(parts, entries) ==
    [k \in 1..(Len(parts) - 1) |-> ApplyReplacements(RemoveQuotes(parts[k + 1]), entries)]

InvalidCommandFormat == "Invalid command format"

\* parseCustomCommand: the value returned, or the error thrown
ParseCustomCommand(command, entries) ==
    LET parts == CommandParts(command)
    IN  IF Len(parts) = 0
          THEN [threw |-> TRUE, message |-> InvalidCommandFormat]
          ELSE [threw |-> FALSE,
                executable |-> Executable(parts, entries),
                args |-> Arguments(parts, entries)]

\* notepad.exe "%s"
NotepadTemplate ==
    <<"n", "o", "t", "e", "p", "a", "d", ".", "e", "x", "e", " ", "\"", "%", "s", "\"">>

\* the pieces generated templates are put together from
Pieces ==
    { <<"a", "p", "p">>, <<" ">>, <<"\"", "%", "s", "\"">>,
      <<"\"", "a", " ", "b", "\"">>,
      <<"\"", "%", "s", " ", "%", "s", "\"">>,
      <<"\\", "S">>, <<"\"">>, <<"%", "s">>,
      <<"\"", "%", "d", "\"">> }

RECURSIVE Concat(_)
Concat(ss) == IF ss = <<>> THEN <<>> ELSE Head(ss) \o Concat(Tail(ss))

RECURSIVE PieceSeqs(_)
PieceSeqs(n) ==
    IF n = 0 THEN {<<>>}
    ELSE LET shorter == PieceSeqs(n - 1)
         IN  shorter \cup {Append(ps, q) : ps \in {t \in shorter : Len(t) = n - 1}, q \in Pieces}

\* the templates parseCustomCommand is run on
Templates == {Concat(ps) : ps \in PieceSeqs(MaxPieces)} \cup {NotepadTemplate}

PlaceholderS == <<"%", "s">>

PlaceholderD == <<"%", "d">>

\* the replacements objects, as entry lists in insertion order
ReplacementSets ==
    { <<>>,
      << <<PlaceholderS, <<"C", ":", "/", "a", " ", "b", ".", "t", "x", "t">>>> >>,
      << <<PlaceholderS, PlaceholderD>>, <<PlaceholderD, <<"9">> >> >>,
      << <<PlaceholderD, <<"9">> >>, <<PlaceholderS, PlaceholderD>> >>,
      << <<PlaceholderS, <<"v">> >>, <<PlaceholderD, <<"9">> >> >> }

InitTpl ==
    /\ CommandsIdle
    /\ BulkIdle
    /\ RunsIdle
    /\ CsvIdle
    /\ ExecIdle
    /\ template \in Templates
    /\ replacements \in ReplacementSets
    /\ tplPc = "start"
    /\ compiled = NoResult
    /\ CustomIdle

\* a call parseCustomCommand(template, replacements) returns
ParseReturns ==
    /\ tplPc = "start"
    /\ ~ParseCustomCommand(template, replacements).threw
    /\ compiled' = ParseCustomCommand(template, replacements)
    /\ tplPc' = "returned"
    /\ UNCHANGED <<template, replacements>>
    /\ UNCHANGED customVars
    /\ UNCHANGED notTpl

\* a call parseCustomCommand(template, replacements) throws
ParseThrows ==
    /\ tplPc = "start"
    /\ ParseCustomCommand(template, replacements).threw
    /\ compiled' = ParseCustomCommand(template, replacements)
    /\ tplPc' = "threw"
    /\ UNCHANGED <<template, replacements>>
    /\ UNCHANGED customVars
    /\ UNCHANGED notTpl

\* variant: the executable and the arguments are joined into one command
\* string again
ExecFileCall_Rejoined(parsed) ==
    [file |-> Concat(<<parsed.executable>> \o
                     [k \in 1..Len(parsed.args) |-> <<" ">> \o parsed.args[k]]),
     args |-> <<>>]

\* execFileAsync(executable, args): the file to run and its argument list
ExecFileCall(parsed) == [file |-> parsed.executable, args |-> parsed.args]

\* executeCustomCommand: parseCustomCommand throws, the call rejects
CustomParseThrows ==
    /\ tplPc = "start"
    /\ ParseCustomCommand(template, replacements).threw
    /\ compiled' = ParseCustomCommand(template, replacements)
    /\ tplPc' = "threw"
    /\ customPc' = "rejected"
    /\ customValue' = compiled'
    /\ UNCHANGED <<template, replacements, fileCalls>>
    /\ UNCHANGED notTpl

\* executeCustomCommand: parseCustomCommand returns, execFile is called and awaited
CustomSpawn ==
    /\ tplPc = "start"
    /\ ~ParseCustomCommand(template, replacements).threw
    /\ compiled' = ParseCustomCommand(template, replacements)
    /\ tplPc' = "returned"
    /\ fileCalls' = Append(fileCalls, ExecFileCall(compiled'))
    /\ customPc' = "running"
    /\ UNCHANGED <<template, replacements, customValue>>
    /\ UNCHANGED notTpl

\* the child exits with status 0: return stdout.trim()
CustomChildExitsZero ==
    /\ customPc = "running"
    /\ \E out \in Stdouts : customValue' = Trim(out)
    /\ customPc' = "resolved"
    /\ UNCHANGED <<template, replacements, tplPc, compiled, fileCalls>>
    /\ UNCHANGED notTpl

\* the child exits with another status or cannot be started: execFile's
\* error leaves executeCustomCommand unchanged
CustomChildFails ==
    /\ customPc = "running"
    /\ \/ \E code \in FailureCodes :
             customValue' = ExecError(ExitStatus(code), <<>>, "")
       \/ \E code \in SpawnErrorCodes :
             customValue' = ExecError(SystemCode(code), <<>>, "")
    /\ customPc' = "rejected"
    /\ UNCHANGED <<template, replacements, tplPc, compiled, fileCalls>>
    /\ UNCHANGED notTpl

NextTpl ==
    \/ ParseReturns
    \/ ParseThrows
    \/ CustomParseThrows
    \/ CustomSpawn
    \/ CustomChildExitsZero
    \/ CustomChildFails

SpecTpl == InitTpl /\ [][NextTpl]_vars

-----------------------------------------------------------------------------
(* executeWindowsCommand, killProcess, killProcessByName *)

\* the commands callers pass directly
DirectCommands == { <<"tasklist /nh /fo csv">>, <<"where ", "es.exe">> }

Pids == {"1234", "42"}

ProcessNames == {"notepad.exe"}

\* variant: every failure is replaced by a new error
ExecCatch_AlwaysNew(error) == NewError(CommandNotFoundMessage)

\* the catch block of executeWindowsCommand: the error it throws
ExecCatch(error) ==
    IF error.isError /\ "code" \in DOMAIN error /\ error.code = SystemCode("ENOENT")
      THEN NewError(CommandNotFoundMessage)
      ELSE error

InitExec ==
    /\ CommandsIdle
    /\ BulkIdle
    /\ RunsIdle
    /\ CsvIdle
    /\ TplIdle
    /\ \/ /\ execCaller = "direct"
          /\ execTarget = ""
          /\ execCommand \in DirectCommands
          /\ callerPc = "none"
       \/ /\ execCaller = "killProcess"
          /\ execTarget \in Pids
          /\ execCommand = KillProcessCommand(execTarget)
          /\ callerPc = "awaiting"
       \/ /\ execCaller = "killProcessByName"
          /\ execTarget \in ProcessNames
          /\ execCommand = KillProcessByNameCommand(execTarget)
          /\ callerPc = "awaiting"
    /\ spawned = <<>>
    /\ osResult = NoResult
    /\ elapsed = 0
    /\ execPc = "start"
    /\ execValue = NoResult
    /\ callerError = NoResult

\* await execAsync(fullCommand): exec is called with the command line and no options
Spawn ==
    /\ execPc = "start"
    /\ spawned' = Append(spawned, FullCommand(execCommand))
    /\ execPc' = "running"
    /\ UNCHANGED <<execCaller, execTarget, execCommand, osResult, elapsed, execValue,
                   callerPc, callerError>>
    /\ UNCHANGED notExec

\* time passes while the child runs; nothing in the call watches it
Tick ==
    /\ execPc = "running"
    /\ elapsed < MaxTicks
    /\ elapsed' = elapsed + 1
    /\ UNCHANGED <<execCaller, execTarget, execCommand, spawned, osResult, execPc,
                   execValue, callerPc, callerError>>
    /\ UNCHANGED notExec

\* the child exits with status 0: return stdout.trim()
ChildExitsZero ==
    /\ execPc = "running"
    /\ \E out \in Stdouts, err \in Stderrs :
          /\ osResult' = [kind |-> "exit", code |-> 0, stdout |-> out, stderr |-> err]
          /\ execValue' = CommandOutput(out)
    /\ execPc' = "resolved"
    /\ UNCHANGED <<execCaller, execTarget, execCommand, spawned, elapsed, callerPc,
                   callerError>>
    /\ UNCHANGED notExec

\* the child exits with another status: exec rejects, the catch block rethrows
ChildExitsNonZero ==
    /\ execPc = "running"
    /\ \E code \in FailureCodes, out \in Stdouts, err \in Stderrs :
          /\ osResult' = [kind |-> "exit", code |-> code, stdout |-> out, stderr |-> err]
          /\ execValue' = ExecCatch(ExecError(ExitStatus(code), out, err))
    /\ execPc' = "rejected"
    /\ UNCHANGED <<execCaller, execTarget, execCommand, spawned, elapsed, callerPc,
                   callerError>>
    /\ UNCHANGED notExec

\* the child cannot be started: exec rejects with a system error
SpawnFails ==
    /\ execPc = "running"
    /\ elapsed = 0
    /\ \E code \in SpawnErrorCodes :
          /\ osResult' = [kind |-> "spawnError", code |-> code]
          /\ execValue' = ExecCatch(ExecError(SystemCode(code), <<>>, ""))
    /\ execPc' = "rejected"
    /\ UNCHANGED <<execCaller, execTarget, execCommand, spawned, elapsed, callerPc,
                   callerError>>
    /\ UNCHANGED notExec

\* variant: the wrapper catches the executor's error and resolves
KillOutcome_Swallowed(state) == "resolved"

\* await executeWindowsCommand(...) in killProcess / killProcessByName: the
\* wrapper settles as the executor did
KillOutcome(state) == state

\* killProcess / killProcessByName settles
KillSettles ==
    /\ callerPc = "awaiting"
    /\ execPc \in {"resolved", "rejected"}
    /\ callerPc' = KillOutcome(execPc)
    /\ callerError' = IF KillOutcome(execPc) = "rejected" THEN execValue ELSE NoResult
    /\ UNCHANGED <<execCaller, execTarget, execCommand, spawned, osResult, elapsed,
                   execPc, execValue>>
    /\ UNCHANGED notExec

NextExec ==
    \/ Spawn
    \/ Tick
    \/ ChildExitsZero
    \/ ChildExitsNonZero
    \/ SpawnFails
    \/ KillSettles

SpecExec == InitExec /\ [][NextExec]_vars

-----------------------------------------------------------------------------
(* Concurrent runs of processItemsWithRecovery.  A call runs without         *)
(* interruption from one await to the next, so a run takes one step when it  *)
(* is called (up to its first await) and one step each time the awaited      *)
(* processor call settles (up to the next await, or to the return).          *)

\* the calls whose steps interleave
RunIds == {"A", "B"}

\* what the processor of a run does for its k-th item: it fulfils, rejects
\* with an Error whose message names the run and the item, or rejects with a
\* value that is no Error
RunOutcome(r, k, kind) ==
    CASE kind = "ok" -> Ok
      [] kind = "error" ->
            [kind |-> "throw", isError |-> TRUE, message |-> r \o ToString(k)]
      [] OTHER -> [kind |-> "throw", isError |-> FALSE, message |-> NoMessage]

\* the arguments a run may be called with
RunArguments(r) ==
    UNION { { [items |-> [k \in 1..n |-> <<r, k>>],
               processor |-> [k \in 1..n |-> RunOutcome(r, k, kinds[k])],
               pc |-> "new", i |-> 0, returned |-> NoResult] :
              kinds \in [1..n -> {"ok", "error", "other"}] } :
            n \in 0..MaxItems }

\* variant: one results object at module level, used by every call
ResultsOwner_Shared(r) == "A"

\* const results = {...} is a local of the call: each call owns its object
ResultsOwner(r) == r

InitRuns ==
    /\ CommandsIdle
    /\ BulkIdle
    /\ CsvIdle
    /\ TplIdle
    /\ ExecIdle
    /\ calls \in [RunIds -> UNION { RunArguments(r) : r \in RunIds }]
    /\ \A r \in RunIds : calls[r] \in RunArguments(r)
    /\ resultsOf = [r \in RunIds |-> NoResult]

\* the loop test, then either processor(items[i]) is called and awaited or
\* results is returned
LoopOrReturn(call, idx, res) ==
    IF LoopDone(idx, call.items)
      THEN [call EXCEPT !.i = idx, !.pc = "done", !.returned = res]
      ELSE [call EXCEPT !.i = idx, !.pc = "await"]

\* the call: const results = {...}; i = 0; on to the first await
StartRun(r) ==
    /\ calls[r].pc = "new"
    /\ LET fresh == [successful |-> 0, failed |-> 0, errors |-> <<>>]
       IN  /\ resultsOf' = [resultsOf EXCEPT ![ResultsOwner(r)] = fresh]
           /\ calls' = [calls EXCEPT ![r] = LoopOrReturn(calls[r], 0, fresh)]
    /\ UNCHANGED notRuns

\* the awaited processor call settles: it is counted, i++, on to the next await
ResumeRun(r) ==
    /\ calls[r].pc = "await"
    /\ LET call == calls[r]
           outcome == call.processor[call.i + 1]
           mine == resultsOf[ResultsOwner(r)]
           counted == IF outcome.kind = "ok"
                        THEN [mine EXCEPT !.successful = @ + 1]
                        ELSE [mine EXCEPT !.failed = @ + 1,
                                          !.errors = PushError(@, outcome)]
       IN  /\ resultsOf' = [resultsOf EXCEPT ![ResultsOwner(r)] = counted]
           /\ calls' = [calls EXCEPT ![r] = LoopOrReturn(call, call.i + 1, counted)]
    /\ UNCHANGED notRuns

NextRuns ==
    \/ \E r \in RunIds : StartRun(r)
    \/ \E r \in RunIds : ResumeRun(r)

SpecRuns == InitRuns /\ [][NextRuns]_vars

-----------------------------------------------------------------------------
(* capture-screen-region: Command *)

\* no function of windows-helpers.ts is running
HelpersIdle == BulkIdle /\ CsvIdle /\ TplIdle /\ ExecIdle /\ RunsIdle

\* values of the sharexPath preference
SharexPaths ==
    {"C:\\Program Files\\ShareX\\ShareX.exe", "D:\\Tools\\ShareX.exe", "ShareX.exe", ""}

\* `"${preferences.sharexPath}" -RectangleRegion`
CaptureCommand(path) == <<"\"", path, "\" -RectangleRegion">>

StartedToast == [style |-> "Success", title |-> "Started Region Capture"]

\* the toast of the catch block
LaunchFailedToast(error) ==
    [style |-> "Failure", title |-> "Failed to Start Region Capture",
     message |-> ErrorText(error)]

\* variant: the success toast is shown before the launch is awaited
OnLaunchFailed_AfterStartedToast(error) == <<StartedToast, LaunchFailedToast(error)>>

\* the toasts shown when execAsync rejects: the try block is left before its
\* showToast, the catch block shows the failure toast
OnLaunchFailed(error) == <<LaunchFailedToast(error)>>

InitCapture ==
    /\ HelpersIdle
    /\ ViewIdle
    /\ sharexPath \in SharexPaths
    /\ capturePc = "start"
    /\ captureCalls = <<>>
    /\ captureResult = NoResult
    /\ captureElapsed = 0
    /\ captureToasts = <<>>

\* await execAsync(`"${preferences.sharexPath}" -RectangleRegion`)
CaptureLaunch ==
    /\ capturePc = "start"
    /\ captureCalls' = Append(captureCalls, CaptureCommand(sharexPath))
    /\ capturePc' = "running"
    /\ UNCHANGED <<sharexPath, captureResult, captureElapsed, captureToasts>>
    /\ UNCHANGED notCapture

\* time passes while the child runs; the command is still awaiting it
CaptureTick ==
    /\ capturePc = "running"
    /\ captureElapsed < MaxTicks
    /\ captureElapsed' = captureElapsed + 1
    /\ UNCHANGED <<sharexPath, capturePc, captureCalls, captureResult, captureToasts>>
    /\ UNCHANGED notCapture

\* the child exits with status 0: the success toast is shown, Command returns
CaptureLaunched ==
    /\ capturePc = "running"
    /\ captureResult' = [kind |-> "exit", code |-> 0]
    /\ captureToasts' = Append(captureToasts, StartedToast)
    /\ capturePc' = "done"
    /\ UNCHANGED <<sharexPath, captureCalls, captureElapsed>>
    /\ UNCHANGED notCapture

\* the child exits with another status: the catch block, Command returns
CaptureExitsNonZero ==
    /\ capturePc = "running"
    /\ \E code \in FailureCodes, err \in Stderrs :
          /\ captureResult' = [kind |-> "exit", code |-> code, stderr |-> err]
          /\ captureToasts' =
                captureToasts \o OnLaunchFailed(ExecError(ExitStatus(code), <<>>, err))
    /\ capturePc' = "done"
    /\ UNCHANGED <<sharexPath, captureCalls, captureElapsed>>
    /\ UNCHANGED notCapture

\* the child cannot be started: the catch block, Command returns
CaptureSpawnFails ==
    /\ capturePc = "running"
    /\ captureElapsed = 0
    /\ \E code \in SpawnErrorCodes :
          /\ captureResult' = [kind |-> "spawnError", code |-> code]
          /\ captureToasts' =
                captureToasts \o OnLaunchFailed(ExecError(SystemCode(code), <<>>, ""))
    /\ capturePc' = "done"
    /\ UNCHANGED <<sharexPath, captureCalls, captureElapsed>>
    /\ UNCHANGED notCapture

NextCapture ==
    \/ CaptureLaunch
    \/ CaptureTick
    \/ CaptureLaunched
    \/ CaptureExitsNonZero
    \/ CaptureSpawnFails

SpecCapture == InitCapture /\ [][NextCapture]_vars

-----------------------------------------------------------------------------
(* view-recent-screenshots: getScreenshots *)

\* values of the screenshotsPath preference
ScreenshotsPaths == {"C:\\Users\\u\\Pictures\\ShareX"}

\* new Date(): the year, and the month as getMonth() gives it (0 is January)
Dates == { [year |-> 2026, month |-> 0], [year |-> 2025, month |-> 11] }

\* (n).toString().padStart(2, '0')
PadStart2(n) == IF n < 10 THEN "0" \o ToString(n) ELSE ToString(n)

\* path.join(baseScreenshotsPath, `${year}-${month}`)
MonthlyFolderPath(base, now) ==
    <<base, "\\", ToString(now.year) \o "-" \o PadStart2(now.month + 1)>>

\* the names readdir may list, in directory order; a name is its stem and the
\* extension after its last dot
FileNames ==
    << [stem |-> "a", ext |-> "png"],
       [stem |-> "b", ext |-> "JPG"],
       [stem |-> "notes", ext |-> "txt"] >>

\* the name as the string readdir gives
FileName(n) == <<n.stem, ".", n.ext>>

\* the i flag of the regular expression: letters compare without case
LowerCase(x) ==
    CASE x = "PNG" -> "png"
      [] x = "JPG" -> "jpg"
      [] x = "JPEG" -> "jpeg"
      [] x = "GIF" -> "gif"
      [] OTHER -> x

\* /\.(png|jpg|jpeg|gif)$/i.test(file)
IsImage(n) == LowerCase(n.ext) \in {"png", "jpg", "jpeg", "gif"}

\* a file on disk: its name, when it was created (birthtime) and when its
\* status last changed (ctime), which is never before its creation
FileStates(n) ==
    { f \in [name : {n}, birthtime : 1..MaxTime, ctime : 1..MaxTime] :
        f.ctime >= f.birthtime }

\* the file is absent, or present in one of its states
Presence(k) == {<<>>} \cup { <<f>> : f \in FileStates(FileNames[k]) }

\* the codes of the errors readdir and stat reject with
ReaddirErrorCodes == {"ENOENT", "EACCES"}

StatErrorCodes == {"ENOENT", "EPERM"}

\* the monthly folder: it cannot be read, or it holds some of the files
Folders ==
    { [path |-> MonthlyFolderPath(base, now), error |-> code, files |-> <<>>] :
        base \in ScreenshotsPaths, now \in Dates, code \in ReaddirErrorCodes }
    \cup
    { [path |-> MonthlyFolderPath(base, now), error |-> "", files |-> f1 \o f2 \o f3] :
        base \in ScreenshotsPaths, now \in Dates,
        f1 \in Presence(1), f2 \in Presence(2), f3 \in Presence(3) }

\* the error a failed readdir or stat rejects with
FsError(code) == [isError |-> TRUE, code |-> code, message |-> code \o ": operation failed"]

NoScreenshotsToast ==
    [style |-> "Success", title |-> "No screenshots found this month."]

NoFolderToast ==
    [style |-> "Success", title |-> "No screenshots folder found for this month."]

LoadFailedToast(error) ==
    [style |-> "Failure", title |-> "Failed to Load Screenshots",
     message |-> error.message]

\* the toast of the catch block of getScreenshots
CatchToast(error) ==
    IF error.code = "ENOENT" THEN NoFolderToast ELSE LoadFailedToast(error)

\* files.filter(file => /\.(png|jpg|jpeg|gif)$/i.test(file))
ImageFiles(files) == SelectSeq(files, LAMBDA f : IsImage(f.name))

\* { name: file, path: path.join(monthlyFolderPath, file), createdAt: stats.ctime }
ScreenshotOf(dirPath, f) ==
    [name |-> FileName(f.name),
     path |-> dirPath \o <<"\\">> \o FileName(f.name),
     createdAt |-> f.ctime]

\* Array.prototype.sort with (a, b) => b.createdAt - a.createdAt: entries in
\* descending createdAt, equal ones in their former order
RECURSIVE InsertNewestFirst(_, _)
InsertNewestFirst(sorted, e) ==
    IF sorted = <<>> THEN <<e>>
    ELSE IF Head(sorted).createdAt >= e.createdAt
      THEN <<Head(sorted)>> \o InsertNewestFirst(Tail(sorted), e)
    ELSE <<e>> \o sorted

RECURSIVE SortNewestFirst(_)
SortNewestFirst(entries) ==
    IF entries = <<>> THEN <<>>
    ELSE InsertNewestFirst(SortNewestFirst(SubSeq(entries, 1, Len(entries) - 1)),
                           entries[Len(entries)])

\* usePromise calls getScreenshots when the view opens
InitView ==
    /\ HelpersIdle
    /\ CaptureIdle
    /\ folder \in Folders
    /\ screenshots = NoResult
    /\ isLoading = TRUE
    /\ loadCause = NoResult
    /\ loadToast = NoResult
    /\ deletePc = "none"
    /\ deleteTarget = <<>>
    /\ deleteLog = <<>>

\* readdir rejects: the catch block shows its toast and returns []
LoadReaddirFails ==
    /\ isLoading
    /\ folder.error # ""
    /\ screenshots' = <<>>
    /\ loadCause' = [kind |-> "error", at |-> "readdir", error |-> FsError(folder.error)]
    /\ loadToast' = CatchToast(FsError(folder.error))
    /\ isLoading' = FALSE
    /\ UNCHANGED <<folder, deletePc, deleteTarget, deleteLog>>
    /\ UNCHANGED notView

\* the folder holds no image file: a toast, and [] is returned
LoadNoImages ==
    /\ isLoading
    /\ folder.error = ""
    /\ ImageFiles(folder.files) = <<>>
    /\ screenshots' = <<>>
    /\ loadCause' = [kind |-> "empty"]
    /\ loadToast' = NoScreenshotsToast
    /\ isLoading' = FALSE
    /\ UNCHANGED <<folder, deletePc, deleteTarget, deleteLog>>
    /\ UNCHANGED notView

\* the stat of an image file rejects first: Promise.all rejects with its
\* error, the catch block shows its toast and returns []
LoadStatFails ==
    /\ isLoading
    /\ folder.error = ""
    /\ ImageFiles(folder.files) # <<>>
    /\ \E code \in StatErrorCodes :
          /\ loadCause' = [kind |-> "error", at |-> "stat", error |-> FsError(code)]
          /\ loadToast' = CatchToast(FsError(code))
    /\ screenshots' = <<>>
    /\ isLoading' = FALSE
    /\ UNCHANGED <<folder, deletePc, deleteTarget, deleteLog>>
    /\ UNCHANGED notView

\* every stat resolves: the entries are sorted and returned, no toast
LoadSucceeds ==
    /\ isLoading
    /\ folder.error = ""
    /\ ImageFiles(folder.files) # <<>>
    /\ LET images == ImageFiles(folder.files)
       IN  screenshots' =
             SortNewestFirst([k \in 1..Len(images) |-> ScreenshotOf(folder.path, images[k])])
    /\ loadCause' = [kind |-> "ok"]
    /\ loadToast' = NoResult
    /\ isLoading' = FALSE
    /\ UNCHANGED <<folder, deletePc, deleteTarget, deleteLog>>
    /\ UNCHANGED notView

-----------------------------------------------------------------------------
(* view-recent-screenshots: deleteScreenshot *)

\* `del "${filePath}"`
DeleteCommand(filePath) == <<"del \"">> \o filePath \o <<"\"">>

\* what a deleteScreenshot call does, as entries of its log
ExecCall(command) == [event |-> "exec", command |-> command]

Revalidate == [event |-> "revalidate"]

ToastShown(toast) == [event |-> "showToast", toast |-> toast]

DeletedToast == [style |-> "Success", title |-> "Screenshot Deleted"]

DeleteFailedToast(error) ==
    [style |-> "Failure", title |-> "Failed to Delete Screenshot",
     message |-> ErrorText(error)]

\* the try block after await execAsync(...): revalidate(), then the toast
OnDeleted == <<Revalidate, ToastShown(DeletedToast)>>

\* variant: the list is refreshed whatever the delete command did
OnDeleteFailed_Revalidates(error) == <<Revalidate, ToastShown(DeleteFailedToast(error))>>

\* the catch block: the failure toast and nothing else
OnDeleteFailed(error) == <<ToastShown(DeleteFailedToast(error))>>

\* revalidate() makes usePromise call getScreenshots again
Revalidates(events) == \E k \in 1..Len(events) : events[k] = Revalidate

\* the errors execAsync rejects with
DeleteErrors ==
    { ExecError(ExitStatus(1), <<>>, "Access is denied."),
      ExecError(SystemCode("ENOENT"), <<>>, "") }

\* the Delete Screenshot action of a displayed item (there is one once a
\* load has finished): await execAsync(`del ...`)
DeleteStart ==
    /\ deletePc \in {"none", "deleted", "failed"}
    /\ loadCause # NoResult
    /\ \E k \in 1..Len(screenshots) :
          /\ deleteTarget' = screenshots[k].path
          /\ deleteLog' = <<ExecCall(DeleteCommand(screenshots[k].path))>>
    /\ deletePc' = "running"
    /\ UNCHANGED <<folder, screenshots, isLoading, loadCause, loadToast>>
    /\ UNCHANGED notView

\* del exits with status 0, having removed the file or not (del reports a
\* file it could not find or delete on its output, not in its status)
DeleteExitsZero ==
    /\ deletePc = "running"
    /\ \E removed \in BOOLEAN :
          folder' = IF removed
                      THEN [folder EXCEPT !.files =
                              SelectSeq(@, LAMBDA f :
                                  folder.path \o <<"\\">> \o FileName(f.name) # deleteTarget)]
                      ELSE folder
    /\ deleteLog' = deleteLog \o OnDeleted
    /\ isLoading' = (isLoading \/ Revalidates(OnDeleted))
    /\ deletePc' = "deleted"
    /\ UNCHANGED <<screenshots, loadCause, loadToast, deleteTarget>>
    /\ UNCHANGED notView

\* execAsync rejects: the catch block
DeleteFails ==
    /\ deletePc = "running"
    /\ \E error \in DeleteErrors :
          /\ deleteLog' = deleteLog \o OnDeleteFailed(error)
          /\ isLoading' = (isLoading \/ Revalidates(OnDeleteFailed(error)))
    /\ deletePc' = "failed"
    /\ UNCHANGED <<folder, screenshots, loadCause, loadToast, deleteTarget>>
    /\ UNCHANGED notView

NextView ==
    \/ LoadReaddirFails
    \/ LoadNoImages
    \/ LoadStatFails
    \/ LoadSucceeds
    \/ DeleteStart
    \/ DeleteExitsZero
    \/ DeleteFails

SpecView == InitView /\ [][NextView]_vars

-----------------------------------------------------------------------------
(* Properties of processItemsWithRecovery and showProcessingResults *)

\* the number of items whose processor call has settled
Settled == IF pc = "await" THEN Len(invoked) - 1 ELSE Len(invoked)

\* the positions, among the first n items, at which the processor throws, in input order
ThrowPositions(n) ==
    SelectSeq([k \in 1..n |-> k], LAMBDA k : processor[k].kind = "throw")

OkCount(n) == Cardinality({k \in 1..n : processor[k].kind = "ok"})

ThrowCount(n) == Cardinality({k \in 1..n : processor[k].kind = "throw"})

\* C1: at every step successful + failed is the number of items attempted so far
\* and errors.length = failed; the returned outcome has successful + failed = N
\* and errors.length = failed.
C1_CountsMatchAttempted ==
    /\ successful + failed = Settled
    /\ Len(errors) = failed
    /\ successful = OkCount(Settled)
    /\ failed = ThrowCount(Settled)
    /\ returned # NoResult =>
          /\ returned.successful + returned.failed = Len(items)
          /\ Len(returned.errors) = returned.failed

C1_Witness ==
    /\ pc = "done"
    /\ Len(items) = 3
    /\ returned.successful = 1
    /\ returned.failed = 2

\* C2: an item's failure never ends the run: the processor is invoked once per
\* item in input order, the outcome is returned only after the last item was
\* attempted, and the run rejects only when onProgress throws.
C2_NoEarlyAbort ==
    /\ Len(invoked) <= Len(items)
    /\ invoked = SubSeq(items, 1, Len(invoked))
    /\ returned # NoResult => (invoked = items /\ Settled = Len(items))
    /\ pc = "rejected" => (hasProgress /\ progressThrowAt = Len(progressCalls))
    /\ (progressThrowAt = 0 /\ pc = "loop" /\ Len(invoked) < Len(items)) => ENABLED Invoke

C2_Witness ==
    /\ pc = "done"
    /\ Len(items) = 3
    /\ processor[1].kind = "throw"
    /\ processor[2].kind = "throw"
    /\ invoked = <<1, 2, 3>>

\* C3: with onProgress supplied, a run over N items that returns has called it
\* N times, with completed = 1, 2, ..., N and total = N; at every step it has
\* been called once for each item finished so far, failed or not.
C3_ProgressAfterEveryItem ==
    /\ progressCalls = [k \in 1..Len(progressCalls) |-> <<k, Len(items)>>]
    /\ ~hasProgress => progressCalls = <<>>
    /\ (hasProgress /\ pc = "loop") => Len(progressCalls) = Len(invoked)
    /\ (hasProgress /\ pc \in {"await", "progress"}) => Len(progressCalls) = Len(invoked) - 1
    /\ (hasProgress /\ returned # NoResult) =>
          progressCalls = [k \in 1..Len(items) |-> <<k, Len(items)>>]

C3_Witness ==
    /\ pc = "done"
    /\ hasProgress
    /\ Len(items) = 3
    /\ processor[1].kind = "ok"
    /\ processor[2].kind = "throw"
    /\ processor[3].kind = "ok"
    /\ progressCalls = << <<1, 3>>, <<2, 3>> , <<3, 3>> >>

\* C4: errors holds one message per failed item, in the input order of the
\* failed items, and nothing for an item that succeeded.
C4_ErrorsInInputOrder ==
    LET pos == ThrowPositions(Settled)
    IN  /\ Len(errors) = Len(pos)
        /\ \A j \in 1..Len(pos) : errors[j] = ErrorText(processor[pos[j]])
        /\ returned # NoResult => returned.errors = errors

C4_Witness ==
    /\ pc = "done"
    /\ Len(items) = 3
    /\ processor[1].kind = "throw" /\ processor[1].message = "boom" /\ processor[1].isError
    /\ processor[2].kind = "ok"
    /\ processor[3].kind = "throw" /\ processor[3].message = "denied"
    /\ returned.errors = <<"boom", "denied">>

\* a thrown value that carries no message
CarriesNoMessage(thrown) == thrown.message \in {NoMessage, ""}

\* C5: a failure without a message is recorded as "Unknown error", a failure
\* with a message is recorded as that message, and no entry is empty.
C5_FallbackOnlyWithoutMessage ==
    LET pos == ThrowPositions(Settled)
    IN  \A j \in 1..Len(errors) :
           /\ errors[j] # ""
           /\ CarriesNoMessage(processor[pos[j]]) => errors[j] = UnknownError
           /\ ~CarriesNoMessage(processor[pos[j]]) => errors[j] = processor[pos[j]].message

\* C6: showProcessingResults shows exactly one notification, chosen by the
\* counts: no failure -> success "completed"; failures only -> failure
\* "failed"; both -> failure "partially completed".
C6_ThreeWayClassification ==
    /\ pc # "shown" => toasts = <<>>
    /\ pc = "shown" =>
          /\ Len(toasts) = 1
          /\ LET t == toasts[1]
                 s == OkCount(Len(items))
                 f == ThrowCount(Len(items))
             IN  /\ f = 0 => (t.style = "Success" /\ t.title[2] = " completed")
                 /\ (s = 0 /\ f > 0) => (t.style = "Failure" /\ t.title[2] = " failed")
                 /\ (s > 0 /\ f > 0) =>
                        (t.style = "Failure" /\ t.title[2] = " partially completed")
                 /\ t.title[1] \in Operations

C6_Witness ==
    /\ pc = "shown"
    /\ Len(items) = 3
    /\ returned.successful = 2
    /\ returned.failed = 1
    /\ toasts[1].title = <<"Kill", " partially completed">>

-----------------------------------------------------------------------------
\* C22: a run has at most one processor call in flight; the call for the next
\* item starts only after the calls for all earlier items have settled and
\* onProgress has returned for each of them; with killProcess as the
\* processor the run issues one taskkill command per pid, in input order.
C22_StrictlySequential ==
    /\ inFlight <= 1
    /\ pc # "await" => inFlight = 0
    /\ pc = "await" =>
          /\ inFlight = 1
          /\ Len(invoked) = i + 1
          /\ successful + failed = i
          /\ hasProgress => progressCalls = [k \in 1..i |-> <<k, Len(items)>>]
    /\ killsPids =>
          commands = [k \in 1..Len(invoked) |->
                        <<"chcp 65001 > nul && ", "taskkill /F /PID ", ToString(items[k])>>]
    /\ (killsPids /\ returned # NoResult) => Len(commands) = Len(items)

C22_Witness ==
    /\ killsPids
    /\ hasProgress
    /\ pc = "done"
    /\ failed = 1
    /\ commands = << <<"chcp 65001 > nul && ", "taskkill /F /PID ", "1">>,
                     <<"chcp 65001 > nul && ", "taskkill /F /PID ", "2">>,
                     <<"chcp 65001 > nul && ", "taskkill /F /PID ", "3">> >>

-----------------------------------------------------------------------------

\* C26: when onProgress throws in the call made after item k, the run is
\* rejected: it returns no outcome, the processor was invoked for items 1..k
\* only and is not invoked again; the k processor outcomes before the throw
\* were counted as usual.
C26_ProgressFailureRejectsRun ==
    /\ progressThrowAt # 0 =>
          /\ returned = NoResult
          /\ toasts = <<>>
          /\ Len(invoked) <= progressThrowAt
          /\ Len(progressCalls) >= progressThrowAt => pc = "rejected"
    /\ pc = "rejected" =>
          /\ hasProgress
          /\ Len(progressCalls) = progressThrowAt
          /\ invoked = [k \in 1..progressThrowAt |-> items[k]]
          /\ successful + failed = progressThrowAt
          /\ failed = ThrowCount(progressThrowAt)
          /\ ~ENABLED Invoke
          /\ ~ENABLED Return

C26_Witness ==
    /\ pc = "rejected"
    /\ Len(items) = 3
    /\ progressThrowAt = 2
    /\ invoked = <<1, 2>>
    /\ failed = 1

\* C27: a run over no items invokes neither the processor nor onProgress and
\* returns successful = 0, failed = 0, errors = []; showProcessingResults
\* shows that outcome as a success, titled "<operation> completed".
C27_EmptyRunIsSuccess ==
    Len(items) = 0 =>
        /\ invoked = <<>>
        /\ progressCalls = <<>>
        /\ commands = <<>>
        /\ pc \in {"loop", "done", "shown"}
        /\ pc = "loop" => ENABLED Return
        /\ pc \in {"done", "shown"} =>
              returned = [successful |-> 0, failed |-> 0, errors |-> <<>>]
        /\ pc = "shown" =>
              /\ Len(toasts) = 1
              /\ toasts[1].style = "Success"
              /\ toasts[1].title[2] = " completed"

C27_Witness ==
    /\ items = <<>>
    /\ hasProgress
    /\ pc = "shown"
    /\ toasts[1].title = <<"Kill", " completed">>

-----------------------------------------------------------------------------

\* the messages a run records when it runs alone: those of its own failing
\* items, in item order
OwnErrors(call) ==
    LET RECURSIVE upTo(_)
        upTo(n) == IF n = 0 THEN <<>>
                   ELSE IF call.processor[n].kind = "throw"
                          THEN Append(upTo(n - 1), ErrorText(call.processor[n]))
                          ELSE upTo(n - 1)
    IN  upTo(Len(call.items))

\* C23: however the steps of concurrent runs interleave, each run returns
\* successful + failed equal to the number of its own items, and its errors
\* are exactly the messages of its own failing items.
C23_RunsShareNoState ==
    \A r \in RunIds :
        calls[r].pc = "done" =>
            /\ calls[r].returned.successful + calls[r].returned.failed = Len(calls[r].items)
            /\ calls[r].returned.errors = OwnErrors(calls[r])
            /\ Len(calls[r].returned.errors) = calls[r].returned.failed

C23_Witness ==
    /\ calls["A"].pc = "done"
    /\ calls["B"].pc = "await"
    /\ calls["B"].i = 1
    /\ calls["A"].returned.errors = <<"A1", "Unknown error">>
    /\ resultsOf["B"].errors = <<"B1">>
    /\ Len(calls["A"].items) = 3

-----------------------------------------------------------------------------

(* Properties of parseWindowsCSV and getProcessList *)

\* the j-th smallest element of a set of numbers
Nth(S, j) == CHOOSE k \in S : Cardinality({m \in S : m <= k}) = j

\* the lines, among the given ones, whose first field is non-empty once the
\* double quotes are removed and the line is split on commas
NonEmptyFirst(lines) ==
    {k \in 1..Len(lines) : SplitComma(SelectSeq(lines[k], LAMBDA c : c # "\""))[1] # <<>>}

CommaCount(line) == Cardinality({k \in 1..Len(line) : line[k] = ","})

IsBlank(s) == \A k \in 1..Len(s) : IsSpace(s[k])

\* C7 as stated: one row per line of the input text whose first field is
\* non-empty (stated for the number of rows, which the claim entails).
C7_OneRowPerInputLine ==
    csvPc = "parsed" => Len(rows) = Cardinality(NonEmptyFirst(SplitLines(text)))

\* C7, amended: one row per line of the trimmed input text whose first field
\* is non-empty, the rows being those lines' fields in the lines' order, and
\* no row for any other line.
C7_OneRowPerTrimmedLine ==
    csvPc = "parsed" =>
        LET lines == SplitLines(Trim(text))
            kept == NonEmptyFirst(lines)
        IN  /\ Len(rows) = Cardinality(kept)
            /\ \A j \in 1..Len(rows) :
                  rows[j] = SplitComma(SelectSeq(lines[Nth(kept, j)], LAMBDA c : c # "\""))

C7_Witness ==
    /\ csvPc = "parsed"
    /\ text = LeadingSpaceText
    /\ rows = << << <<"b">>, <<"a">> >>, << <<"a">> >> >>

\* C8: no row of the result has a first field that is empty or consists only
\* of whitespace.
C8_NoBlankFirstField ==
    csvPc = "parsed" => \A j \in 1..Len(rows) : ~IsBlank(rows[j][1])

C10_TasklistLineRecord ==
    (csvPc = "listed" /\ text = TasklistLine) =>
        records = << [name          |-> <<"n", "o", "t", "e", "p", "a", "d", ".", "e", "x", "e">>,
                      pid           |-> <<"1", "2", "3", "4">>,
                      sessionName   |-> <<"C", "o", "n", "s", "o", "l", "e">>,
                      sessionNumber |-> <<"1">>,
                      memoryUsage   |-> <<"1", "5", ",", "0", "0", "0", " ", "K">>] >>

\* the k-th field of a row (k from 1), the empty string when the row is shorter
FieldAt(row, k) == IF k \in DOMAIN row THEN row[k] ELSE <<>>

\* C11: getProcessList gives one record per row of parseWindowsCSV, in row
\* order, fields 0..4 going to name, pid, sessionName, sessionNumber,
\* memoryUsage; fields a row lacks are empty strings, for every text printed.
C11_OneRecordPerRow ==
    csvPc = "listed" =>
        LET parsed == ParseWindowsCSV(text)
        IN  /\ Len(records) = Len(parsed)
            /\ \A k \in 1..Len(records) :
                  /\ records[k].name = FieldAt(parsed[k], 1)
                  /\ records[k].pid = FieldAt(parsed[k], 2)
                  /\ records[k].sessionName = FieldAt(parsed[k], 3)
                  /\ records[k].sessionNumber = FieldAt(parsed[k], 4)
                  /\ records[k].memoryUsage = FieldAt(parsed[k], 5)

C11_Witness ==
    /\ csvPc = "listed"
    /\ text = <<"a", ",", "b", "\n", "b">>
    /\ records = << [name |-> <<"a">>, pid |-> <<"b">>, sessionName |-> <<>>,
                     sessionNumber |-> <<>>, memoryUsage |-> <<>>],
                    [name |-> <<"b">>, pid |-> <<>>, sessionName |-> <<>>,
                     sessionNumber |-> <<>>, memoryUsage |-> <<>>] >>

-----------------------------------------------------------------------------
\* the text with every "\n" written as "\r\n"
RECURSIVE WithCrLf(_)
WithCrLf(s) ==
    IF s = <<>> THEN <<>>
    ELSE IF Head(s) = "\n" THEN <<"\r", "\n">> \o WithCrLf(Tail(s))
    ELSE <<Head(s)>> \o WithCrLf(Tail(s))

\* the text without its carriage returns
WithoutCr(s) == SelectSeq(s, LAMBDA c : c # "\r")

\* every carriage return of the text is part of a "\r\n" line ending
CrOnlyInCrLf(s) ==
    \A k \in 1..Len(s) : s[k] = "\r" => (k < Len(s) /\ s[k + 1] = "\n")

\* C24: lines joined with "\n" and the same lines joined with "\r\n" parse to
\* the same rows in the same order, and no field of a row contains a
\* carriage return.
C24_LineEndingsEquivalent ==
    csvPc = "parsed" =>
        /\ (\A k \in 1..Len(text) : text[k] # "\r") =>
              rows = ParseWindowsCSV(WithCrLf(text))
        /\ CrOnlyInCrLf(text) =>
              /\ rows = ParseWindowsCSV(WithoutCr(text))
              /\ \A r \in 1..Len(rows) : \A f \in 1..Len(rows[r]) :
                    \A k \in 1..Len(rows[r][f]) : rows[r][f][k] # "\r"

C24_Witness ==
    /\ csvPc = "parsed"
    /\ text = <<"a", ",", "\r", "\n", "b">>
    /\ rows = << << <<"a">>, <<>> >>, << <<"b">> >> >>
    /\ rows = ParseWindowsCSV(<<"a", ",", "\n", "b">>)

-----------------------------------------------------------------------------

(* Properties of parseCustomCommand *)

\* the last index of the run of non-whitespace characters that starts at p
RECURSIVE WordEnd(_, _)
WordEnd(s, p) ==
    IF p + 1 <= Len(s) /\ ~IsSpace(s[p + 1]) THEN WordEnd(s, p + 1) ELSE p

\* the tokens of the stated rule, from position p on: a double-quoted span,
\* or else a maximal run of non-whitespace characters
RECURSIVE RuleTokensFrom(_, _)
RuleTokensFrom(s, p) ==
    IF p > Len(s) THEN <<>>
    ELSE IF s[p] = "\"" /\ NextQuote(s, p) >= p + 2
      THEN <<SubSeq(s, p, NextQuote(s, p))>> \o RuleTokensFrom(s, NextQuote(s, p) + 1)
    ELSE IF ~IsSpace(s[p])
      THEN <<SubSeq(s, p, WordEnd(s, p))>> \o RuleTokensFrom(s, WordEnd(s, p) + 1)
    ELSE RuleTokensFrom(s, p + 1)

RuleTokens(s) == RuleTokensFrom(s, 1)

Unquoted(s) == SelectSeq(s, LAMBDA c : c # "\"")

Contains(s, pat) ==
    \E k \in 1..(Len(s) - Len(pat) + 1) : SubSeq(s, k, k + Len(pat) - 1) = pat

\* C12: the template is cut into double-quoted spans and runs of
\* non-whitespace characters, the first token is the executable and the others
\* the arguments; notepad.exe "%s" with %s -> C:/a b.txt gives notepad.exe
\* and the one argument C:/a b.txt.
C12_TokenizesByRule ==
    tplPc \in {"returned", "threw"} =>
        LET toks == RuleTokens(template)
        IN  /\ toks # <<>> =>
                  /\ ~compiled.threw
                  /\ compiled.executable = Unquoted(toks[1])
                  /\ Len(compiled.args) = Len(toks) - 1
            /\ (template = NotepadTemplate
                    /\ replacements = << <<PlaceholderS, <<"C", ":", "/", "a", " ", "b", ".", "t", "x", "t">>>> >>) =>
                  /\ ~compiled.threw
                  /\ compiled.executable = <<"n", "o", "t", "e", "p", "a", "d", ".", "e", "x", "e">>
                  /\ compiled.args = << <<"C", ":", "/", "a", " ", "b", ".", "t", "x", "t">> >>

\* C13: parseCustomCommand throws exactly when the template has no token
\* (it is empty or all whitespace) and returns otherwise.
C13_ThrowsIffNoToken ==
    tplPc \in {"returned", "threw"} =>
        (compiled.threw <=> RuleTokens(template) = <<>>)

ValuesArePlain ==
    \A a, b \in 1..Len(replacements) : ~Contains(replacements[a][2], replacements[b][1])

\* C15: an argument made from a token that contains a registered placeholder
\* no longer contains that placeholder (values that hold no placeholder).
C15_EveryOccurrenceReplaced ==
    (tplPc = "returned" /\ ValuesArePlain) =>
        LET parts == CommandParts(template)
        IN  \A k \in 1..Len(compiled.args) :
               \A e \in 1..Len(replacements) :
                  Contains(Unquoted(parts[k + 1]), replacements[e][1]) =>
                      ~Contains(compiled.args[k], replacements[e][1])

\* C16: values are not searched for placeholders: with entries A -> v1 and
\* B -> v2, v1 containing B, an argument from a token that contains A and not
\* B contains v1, in whichever order the entries come.
C16_ValuesNotRescanned ==
    tplPc = "returned" =>
        LET parts == CommandParts(template)
        IN  \A k \in 1..Len(compiled.args) :
               \A a, b \in 1..Len(replacements) :
                  ( /\ a # b
                    /\ Contains(replacements[a][2], replacements[b][1])
                    /\ Contains(Unquoted(parts[k + 1]), replacements[a][1])
                    /\ ~Contains(Unquoted(parts[k + 1]), replacements[b][1]) ) =>
                      Contains(compiled.args[k], replacements[a][2])

-----------------------------------------------------------------------------
\* C25: when parseCustomCommand throws for the template, executeCustomCommand
\* rejects with that error and execFile is never called; when it returns,
\* execFile is called exactly once, with the parsed executable as the file
\* and the parsed arguments as a list, one entry per token after the first.
C25_InvalidTemplateBeforeExecution ==
    /\ Len(fileCalls) <= 1
    /\ customPc = "none" => fileCalls = <<>>
    /\ (customPc # "none" /\ ParseCustomCommand(template, replacements).threw) =>
          /\ customPc = "rejected"
          /\ customValue = [threw |-> TRUE, message |-> InvalidCommandFormat]
          /\ fileCalls = <<>>
    /\ (customPc # "none" /\ ~ParseCustomCommand(template, replacements).threw) =>
          /\ Len(fileCalls) = 1
          /\ fileCalls[1].file = compiled.executable
          /\ fileCalls[1].args = compiled.args
          /\ Len(fileCalls[1].args) = Len(CommandParts(template)) - 1

C25_Witness ==
    /\ customPc = "resolved"
    /\ template = <<"\"", "a", " ", "b", "\"", " ", "\"", "%", "s", "\"">>
    /\ fileCalls = << [file |-> <<"a", " ", "b">>,
                       args |-> << <<"C", ":", "/", "a", " ", "b", ".", "t", "x", "t">> >>] >>
    /\ customValue = <<"o", "k">>

-----------------------------------------------------------------------------

(* Properties of executeWindowsCommand, killProcess and killProcessByName *)

\* the error exec reports when it killed the child because its timeout expired
IsTimeoutError(v) == "killed" \in DOMAIN v /\ v.killed

PermissionDeniedMessages ==
    { "Access denied. Administrator privileges may be required.",
      "Operation not permitted. File may be in use or protected." }

\* C17: once the command has run longer than the timeout the call has ended
\* with a Timeout error; it is neither still pending nor resolved with output.
C17_TimeoutEndsCall ==
    elapsed > TimeoutTicks => (execPc = "rejected" /\ IsTimeoutError(execValue))

\* C18: a launch failure with ENOENT is thrown as the command-not-found error
\* and one with EACCES or EPERM as a permission-denied error.
C18_LaunchFailuresClassified ==
    (execPc = "rejected" /\ osResult.kind = "spawnError") =>
        /\ osResult.code = "ENOENT" => execValue = NewError(CommandNotFoundMessage)
        /\ osResult.code \in {"EACCES", "EPERM"} =>
              /\ "code" \notin DOMAIN execValue
              /\ execValue.message \in PermissionDeniedMessages

\* C19 as stated: a command that exits with a non-zero status gives a
\* returned result, not a thrown error.
C19_NonZeroExitIsReturned ==
    (execPc \in {"resolved", "rejected"} /\ osResult.kind = "exit" /\ osResult.code # 0) =>
        execPc = "resolved"

\* C19, amended: a command that exits with a non-zero status makes
\* executeWindowsCommand throw exec's error, which carries the exit status
\* and stderr; a value is returned only for exit status 0, and it is the
\* trimmed stdout.
C19_NonZeroExitIsThrown ==
    /\ (execPc \in {"resolved", "rejected"} /\ osResult.kind = "exit" /\ osResult.code # 0) =>
          /\ execPc = "rejected"
          /\ "code" \in DOMAIN execValue
          /\ execValue.code = [status |-> osResult.code]
          /\ execValue.stderr = osResult.stderr
    /\ execPc = "resolved" =>
          /\ osResult.kind = "exit"
          /\ osResult.code = 0
          /\ execValue = Trim(osResult.stdout)

C19_Witness ==
    /\ execPc = "rejected"
    /\ osResult.kind = "exit"
    /\ osResult.code = 1
    /\ execValue.stderr = "ERROR: The process could not be terminated."

\* C20: killProcess(pid) resolves only when its command taskkill /F /PID <pid>
\* exited successfully, and rejects with the executor's error otherwise;
\* likewise killProcessByName with taskkill /F /IM "<name>".
C20_KillReportsExecutorOutcome ==
    /\ callerPc = "resolved" =>
          /\ execPc = "resolved"
          /\ osResult.kind = "exit"
          /\ osResult.code = 0
    /\ callerPc = "rejected" => (execPc = "rejected" /\ callerError = execValue)
    /\ (callerPc \in {"resolved", "rejected"} /\ execCaller = "killProcess") =>
          spawned = << <<"chcp 65001 > nul && ", "taskkill /F /PID ", execTarget>> >>
    /\ (callerPc \in {"resolved", "rejected"} /\ execCaller = "killProcessByName") =>
          spawned = << <<"chcp 65001 > nul && ", "taskkill /F /IM \"", execTarget, "\"">> >>
    /\ (execCaller \in {"killProcess", "killProcessByName"}
            /\ execPc \in {"resolved", "rejected"}
            /\ callerPc = "awaiting") => ENABLED KillSettles

C20_Witness ==
    /\ execCaller = "killProcess"
    /\ execTarget = "1234"
    /\ callerPc = "rejected"
    /\ osResult.kind = "exit"
    /\ osResult.code = 128
    /\ callerError.stderr = "ERROR: The process could not be terminated."

\* C21: a call of executeWindowsCommand hands exec exactly one command line,
\* the prefix chcp 65001 > nul && followed by the caller's command unchanged;
\* the call is pending while that child runs and settles only once the child
\* has ended.
C21_OneProcessPerCall ==
    /\ Len(spawned) <= 1
    /\ execPc = "start" => spawned = <<>>
    /\ execPc # "start" => spawned = << <<"chcp 65001 > nul && ">> \o execCommand >>
    /\ osResult = NoResult => execPc \in {"start", "running"}
    /\ execPc \in {"resolved", "rejected"} => osResult # NoResult

C21_Witness ==
    /\ execPc = "resolved"
    /\ execCommand = <<"tasklist /nh /fo csv">>
    /\ elapsed = 2
    /\ spawned = << <<"chcp 65001 > nul && ", "tasklist /nh /fo csv">> >>

-----------------------------------------------------------------------------
(* Properties of the capture-screen-region command *)

\* C28: an invocation hands exec the command line "<sharexPath>"
\* -RectangleRegion exactly once; it shows the Started Region Capture success
\* toast only when that launch succeeded and the Failed to Start Region
\* Capture failure toast otherwise, one toast in all, and it returns whatever
\* the launch did.
C28_OneLaunchOneToast ==
    /\ capturePc \in {"start", "running", "done"}
    /\ capturePc = "start" => captureCalls = <<>>
    /\ capturePc # "start" =>
          captureCalls = << <<"\"", sharexPath, "\" -RectangleRegion">> >>
    /\ capturePc # "done" => (captureToasts = <<>> /\ captureResult = NoResult)
    /\ capturePc = "done" =>
          /\ captureResult # NoResult
          /\ Len(captureToasts) = 1
          /\ IF captureResult.kind = "exit" /\ captureResult.code = 0
               THEN captureToasts[1] =
                      [style |-> "Success", title |-> "Started Region Capture"]
               ELSE /\ captureToasts[1].style = "Failure"
                    /\ captureToasts[1].title = "Failed to Start Region Capture"

C28_Witness ==
    /\ capturePc = "done"
    /\ sharexPath = "ShareX.exe"
    /\ captureResult = [kind |-> "spawnError", code |-> "ENOENT"]
    /\ captureToasts =
          << [style |-> "Failure", title |-> "Failed to Start Region Capture",
              message |-> "Command failed"] >>

-----------------------------------------------------------------------------
(* Properties of the view-recent-screenshots command *)

\* C29: deleteScreenshot calls revalidate only after the del command has
\* succeeded, and before it shows the Screenshot Deleted toast; when the
\* command fails it shows the failure toast and nothing else, and the step
\* leaves the displayed list, the loading state and the folder as they were.
C29_RevalidateOnlyAfterDelete ==
    /\ [](/\ deletePc = "running" =>
                deleteLog = <<[event |-> "exec",
                               command |-> <<"del \"">> \o deleteTarget \o <<"\"">>]>>
          /\ deletePc = "deleted" =>
                /\ Len(deleteLog) = 3
                /\ deleteLog[1].event = "exec"
                /\ deleteLog[2] = [event |-> "revalidate"]
                /\ deleteLog[3] = [event |-> "showToast",
                                   toast |-> [style |-> "Success",
                                              title |-> "Screenshot Deleted"]]
          /\ deletePc = "failed" =>
                /\ Len(deleteLog) = 2
                /\ deleteLog[1].event = "exec"
                /\ deleteLog[2].event = "showToast"
                /\ deleteLog[2].toast.style = "Failure"
                /\ deleteLog[2].toast.title = "Failed to Delete Screenshot")
    /\ [][(deletePc = "running" /\ deletePc' = "failed") =>
              (screenshots' = screenshots /\ isLoading' = isLoading /\ folder' = folder)]_vars
    /\ [][(deletePc = "running" /\ deletePc' = "deleted") =>
              (screenshots' = screenshots /\ isLoading')]_vars

C29_Witness ==
    /\ deletePc = "failed"
    /\ ~isLoading
    /\ Len(screenshots) = 2
    /\ deleteTarget = screenshots[2].path
    /\ deleteLog[2].toast.message = "Command failed"

\* the file an entry of the list was made from
FileOf(entry) ==
    CHOOSE k \in 1..Len(folder.files) : FileName(folder.files[k].name) = entry.name

\* getScreenshots after a failure: the list is empty, and the toast is a
\* failure toast unless the error is ENOENT
LoadFailureHandled ==
    (~isLoading /\ loadCause.kind = "error") =>
        /\ screenshots = <<>>
        /\ loadCause.error.code = "ENOENT" => loadToast.style # "Failure"
        /\ loadCause.error.code # "ENOENT" => loadToast.style = "Failure"

\* getScreenshots without a failure: one entry per image file of the folder
OneEntryPerImage ==
    (~isLoading /\ loadCause.kind \in {"ok", "empty"}) =>
        /\ Len(screenshots) = Len(ImageFiles(folder.files))
        /\ \A k \in 1..Len(folder.files) :
              IsImage(folder.files[k].name) =>
                  \E j \in 1..Len(screenshots) :
                      screenshots[j].name = FileName(folder.files[k].name)

\* C30: getScreenshots returns the empty list after any readdir or stat
\* failure, with a non-failure toast for ENOENT and a failure toast for every
\* other error; otherwise it returns one entry per image file, ordered by
\* creation time, newest first.
C30_NewestCreatedFirst ==
    /\ LoadFailureHandled
    /\ OneEntryPerImage
    /\ (~isLoading /\ loadCause.kind = "ok") =>
          \A j, k \in 1..Len(screenshots) :
              j < k => folder.files[FileOf(screenshots[j])].birthtime
                          >= folder.files[FileOf(screenshots[k])].birthtime

====
